---- MODULE Spec2Model ----
(***************************************************************************)
(* Signal lifecycle engine of Discord-Monitor-System.                      *)
(*                                                                         *)
(* Part I  : BinanceTrader (src/Discord0627/binance_trader.py): the        *)
(*           executed-signal ledger, the duplicate-order check and the     *)
(*           admission path read_trading_signals -> monitor_and_trade ->   *)
(*           execute_trading_signals -> place_order.                       *)
(* Part II : the order monitor (src/price_order_monitor.py): the active    *)
(*           and completed order lists and the two advance passes          *)
(*           update_order_prices and update_all_orders_status.             *)
(*                                                                         *)
(* Prices are integers (one unit = one price tick).  Time is in seconds in  *)
(* Part I; in Part II it is counted in passes of the monitoring loop.      *)
(* Percentages are in hundredths of a percent (-500 is -5.00%).            *)
(* The source's Chinese labels are written in pinyin: "zuoduo"/"duo" are   *)
(* the long labels, "zuokong"/"kong" the short ones, "zhiying" is take     *)
(* profit and "zhisun" is stop loss.                                       *)
(***************************************************************************)
EXTENDS Integers, Sequences, FiniteSets, TLC

VARIABLES
    now,                \* time.time(), in seconds
    executed_signals,   \* BinanceTrader.executed_signals: signal_key -> execution time
    order_pairs,        \* BinanceTrader.order_pairs (loaded from file, never added to)
    open_orders,        \* the venue's open LIMIT orders (futures_get_open_orders)
    placed,             \* log of successful entry-order placements (futures_create_order)
    last_result,        \* what the last pass over a signal logged
    sizing,             \* the last call of calculate_position_size: inputs and results
    active_orders,      \* price_order_monitor.active_orders
    completed_orders,   \* price_order_monitor.completed_orders
    price_history,      \* the rows of data/price_history.csv
    price_history_cache,\* price_order_monitor.price_history_cache
    tick,               \* passes of background_monitoring's loop started so far
    phase,              \* the step of the loop pass that comes next
    last_data_hash,     \* price_order_monitor.last_data_hash
    last_push_time,     \* price_order_monitor.last_push_time, in seconds
    emitted,            \* the steps of the running loop pass that emitted orders_update
    forced_snapshot,    \* the orders of a forced orders_update no periodic one has followed
    orders_to_complete, \* update_order_prices' list of indices, while it runs
    monitoring_active,  \* price_order_monitor.monitoring_active
    keep_running,       \* monitor.keep_running
    loops,              \* the background_monitoring tasks started so far: where each is
    request,            \* the running or last call of BinanceTrader._request
    price_cache,        \* price_order_monitor.price_cache
    price_cache_time,   \* price_order_monitor.price_cache_time
    cached_price,       \* the newest entry of _cached_get_price's lru_cache
    served,             \* the price the last cached lookup returned, and its age
    altcoin,            \* update_altcoin_prices: the orders' prices and the loop's locals
    file_manager,       \* an AsyncFileManager: its flag, queue and tasks
    statistics          \* the pnl of the closed trades and the last profit factors

traderVars == <<now, executed_signals, order_pairs, open_orders, placed, last_result,
                sizing>>

publisherVars == <<last_data_hash, last_push_time, emitted, forced_snapshot>>

monitorVars == <<active_orders, completed_orders, price_history,
                 price_history_cache, tick, phase,
                 last_data_hash, last_push_time, emitted, forced_snapshot,
                 orders_to_complete>>

lifecycleVars == <<monitoring_active, keep_running, loops>>

cacheVars == <<price_cache, price_cache_time, cached_price, served>>

workerVars == <<altcoin, file_manager, statistics>>

serviceVars == <<monitoring_active, keep_running, loops, request,
                 price_cache, price_cache_time, cached_price, served,
                 altcoin, file_manager, statistics>>

vars == <<now, executed_signals, order_pairs, open_orders, placed, last_result,
          sizing, active_orders, completed_orders, price_history, price_history_cache,
          tick, phase, last_data_hash, last_push_time, emitted, forced_snapshot,
          orders_to_complete,
          monitoring_active, keep_running, loops, request,
          price_cache, price_cache_time, cached_price, served,
          altcoin, file_manager, statistics>>

-----------------------------------------------------------------------------
(* Bounds of the model *)

\* number of entry orders the venue accepts in one behaviour
MaxOrders == 2

-----------------------------------------------------------------------------
(* Values *)

\* Python's None for a missing price
None == -1

Abs(x) == IF x < 0 THEN -x ELSE x

\* 4 * 3600 seconds: the cooldown window of is_signal_executed / clean_expired_signals
CooldownSeconds == 4 * 3600

\* a minute, the granularity of the key's time bucket
BucketSeconds == 60

\* the readings of the clock: the start, the last minute of the cooldown that
\* started then, and the first minute after it
Instants == { 0, CooldownSeconds - BucketSeconds, CooldownSeconds }

Sides == {"BUY", "SELL"}
EntryPrices == {None, 1000}
StopPrices == {None, 900, 1100}
\* a target equal to the entry price is the boundary of read_trading_signals' check
TargetPrices == {None, 1000}
\* channel names, as sequences of characters: "a" is a prefix of "ab"
Channels == { <<"a">>, <<"a", "b">>, <<"c">> }

Signals ==
    [ symbol : {"BTCUSDT"}, side : Sides, entry_price : EntryPrices,
      stop_loss : StopPrices, target_price : TargetPrices, channel : Channels ]

\* what get_current_price returns: None when the price source fails
CurrentPrices == {None, 950, 1050}
\* the account's available USDT balance; None when futures_account fails
Balances == {None, 100, 1000, 10000}

\* trading_config: position_size and leverage (config_manager defaults)
TradingPositionSize == 200
TradingLeverage == 5
\* btc_config: initial_capital and leverage (config_manager defaults)
BtcInitialCapital == 1000
BtcLeverage == 60
\* get_btc_position_size: max_base_position
MaxBasePosition == 300

\* btc_channel_positions: channel -> position_ratio, in percent (load_btc_position_config)
btc_channel_positions ==
    [ c \in Channels |-> IF c = <<"a">> THEN 3 ELSE IF c = <<"c">> THEN 0 - 50 ELSE 0 - 3 ]

Min(a, b) == IF a <= b THEN a ELSE b

-----------------------------------------------------------------------------
(* Part I: BinanceTrader *)

\* float(price) for a price, 0 for a missing one (get_signal_key)
price_text(price) == IF price = None THEN 0 ELSE price

\* the key as the list of its pieces: the fields joined by "_", the channel spelt
\* out character by character, the minute bucket of the call's time last
get_signal_key(signal, t) ==
    << signal.symbol, "_", signal.side, "_", price_text(signal.entry_price), "_",
       price_text(signal.stop_loss), "_", price_text(signal.target_price), "_" >>
    \o signal.channel
    \o << "_", ToString(t \div BucketSeconds) >>

\* '_'.join(signal_key.split('_')[:-1]): the key without "_<bucket>"
base_key(signal_key) == SubSeq(signal_key, 1, Len(signal_key) - 2)

\* str.startswith
startswith(key, prefix) ==
    /\ Len(prefix) <= Len(key)
    /\ SubSeq(key, 1, Len(prefix)) = prefix

\* the comparison of is_signal_executed's second loop
similar_key(key, prefix) == startswith(key, prefix)

\* the window taken as 4 * 60 seconds
in_cooldown_minutes(t, last_execution_time) == t - last_execution_time < 4 * BucketSeconds

in_cooldown(t, last_execution_time) == t - last_execution_time < CooldownSeconds

\* only the exact key is looked up
is_signal_executed_exact(signal, t) ==
    LET signal_key == get_signal_key(signal, t) IN
    /\ signal_key \in DOMAIN executed_signals
    /\ in_cooldown(t, executed_signals[signal_key])

is_signal_executed(signal, t) ==
    LET signal_key == get_signal_key(signal, t) IN
    \/ /\ signal_key \in DOMAIN executed_signals
       /\ in_cooldown(t, executed_signals[signal_key])
    \/ \E key \in DOMAIN executed_signals :
          /\ similar_key(key, base_key(signal_key))
          /\ in_cooldown(t, executed_signals[key])

\* self.executed_signals[signal_key] = current_time
mark_signal_executed(signal, t) ==
    LET signal_key == get_signal_key(signal, t) IN
    [ k \in DOMAIN executed_signals \cup {signal_key} |->
        IF k = signal_key THEN t ELSE executed_signals[k] ]

\* abs(a - b) / b <= 0.001
within_tolerance(a, b) == Abs(a - b) * 1000 <= b

\* fetched: whether get_open_orders got the venue's list (it returns [] on failure).
\* A missing entry price makes the arithmetic raise once there is something to
\* compare with; the except clause answers False.
check_existing_orders(symbol, side, entry_price, fetched) ==
    LET orders == IF fetched THEN open_orders ELSE {} IN
    IF entry_price = None THEN FALSE
    ELSE
      \/ \E order \in orders :
            /\ order.type = "LIMIT"
            /\ order.side = side
            /\ within_tolerance(order.price, entry_price)
      \/ \E pair \in order_pairs :
            /\ pair.status = "active"
            /\ pair.symbol = symbol
            /\ pair.side = side
            /\ within_tolerance(pair.entry_price, entry_price)

\* the relations of a long demanded whatever the side
price_relation_ok_long_only(signal) ==
    /\ ~(signal.stop_loss >= signal.entry_price)
    /\ ~(signal.target_price # None /\ signal.target_price <= signal.entry_price)

\* the price relations read_trading_signals demands of a row (lines 1144-1158)
price_relation_ok(signal) ==
    IF signal.side = "BUY"
    THEN /\ ~(signal.stop_loss >= signal.entry_price)
         /\ ~(signal.target_price # None /\ signal.target_price <= signal.entry_price)
    ELSE /\ ~(signal.stop_loss <= signal.entry_price)
         /\ ~(signal.target_price # None /\ signal.target_price >= signal.entry_price)

\* only the entry price is looked at
row_prices_present_entry_only(signal) ==
    signal.entry_price # None /\ signal.entry_price > 0

\* a row of the analysis file has both prices (not NaN, > 0)
row_prices_present(signal) ==
    /\ signal.entry_price # None /\ signal.entry_price > 0
    /\ signal.stop_loss # None /\ signal.stop_loss > 0

\* read_trading_signals keeps the row
read_trading_signals(signal, t) ==
    /\ row_prices_present(signal)
    /\ price_relation_ok(signal)
    /\ ~is_signal_executed(signal, t)

\* validate_signal after its is_signal_executed check: market price and balance
validate_market(signal, current_price, balance) ==
    /\ current_price # None
    /\ signal.entry_price # None /\ signal.stop_loss # None
    /\ IF signal.side = "BUY"
       THEN ~(signal.entry_price >= current_price)
       ELSE ~(signal.entry_price <= current_price)
    /\ ~(Abs(signal.stop_loss - current_price) * 1000 < current_price)
    /\ balance # None
    /\ ~(balance * TradingLeverage < TradingPositionSize)

validate_signal(signal, t, current_price, balance) ==
    /\ ~is_signal_executed(signal, t)
    /\ validate_market(signal, current_price, balance)

\* the leveraged position in USDT, None for an unknown channel or a ratio of 0
get_btc_position_size(channel) ==
    IF channel \notin DOMAIN btc_channel_positions THEN None
    ELSE LET position_ratio == btc_channel_positions[channel] IN
         IF position_ratio = 0 THEN None
         ELSE Min((BtcInitialCapital * position_ratio) \div 100, MaxBasePosition)
              * BtcLeverage

\* available_balance >= notional / leverage, False when the account call fails
check_balance_sufficient(notional, balance) ==
    /\ balance # None
    /\ ~(balance * TradingLeverage < notional)

\* what one pass of a row through read_trading_signals, monitor_and_trade's filter
\* and the body of execute_trading_signals' loop ends with
trade_result(signal, t, current_price, balance, fetched, venue_ok) ==
    IF ~row_prices_present(signal) THEN "skip_malformed"
    ELSE IF ~price_relation_ok(signal) THEN "skip_relation"
    ELSE IF is_signal_executed(signal, t) THEN "skip_executed"
    ELSE IF check_existing_orders(signal.symbol, signal.side, signal.entry_price, fetched)
         THEN "skip_existing"
    ELSE IF ~validate_signal(signal, t, current_price, balance) THEN "skip_invalid"
    ELSE IF ~row_prices_present(signal) THEN "skip_malformed"
    ELSE IF get_btc_position_size(signal.channel) = None THEN "skip_no_size"
    ELSE IF ~check_balance_sufficient(Abs(get_btc_position_size(signal.channel)), balance)
         THEN "skip_balance"
    ELSE IF ~venue_ok THEN "order_failed"
    ELSE "placed"

\* the results the price source, the account and the venue can make the pass end with
\* (a row that read_trading_signals drops asks none of them)
trade_results(signal, t) ==
    IF ~read_trading_signals(signal, t)
    THEN { trade_result(signal, t, None, None, FALSE, FALSE) }
    ELSE { trade_result(signal, t, current_price, balance, fetched, venue_ok) :
             current_price \in CurrentPrices, balance \in Balances,
             fetched \in BOOLEAN, venue_ok \in BOOLEAN }

\* if position_size < 0: side = 'SELL' if side == 'BUY' else 'BUY'
order_side(signal) ==
    IF get_btc_position_size(signal.channel) < 0
    THEN (IF signal.side = "BUY" THEN "SELL" ELSE "BUY")
    ELSE signal.side

\* the signal marked before the order is looked at
ledger_after_early_mark(signal, t, result) ==
    IF result \in {"placed", "order_failed"}
    THEN mark_signal_executed(signal, t) ELSE executed_signals

\* the ledger after the pass: mark_signal_executed only behind `if not order: continue`
ledger_after(signal, t, result) ==
    IF result = "placed" THEN mark_signal_executed(signal, t) ELSE executed_signals

-----------------------------------------------------------------------------
(* Actions of the trader *)

\* the state after a pass over `signal` that ended with `result`
Processed(signal, result) ==
    /\ result = "placed" => Len(placed) < MaxOrders
    /\ last_result' = result
    /\ executed_signals' = ledger_after(signal, now, result)
    /\ IF result = "placed"
       THEN /\ placed' = Append(placed,
                   [ signal |-> signal, side |-> order_side(signal),
                     price |-> signal.entry_price,
                     notional |-> Abs(get_btc_position_size(signal.channel)),
                     time |-> now ])
            /\ open_orders' = open_orders \cup
                   { [ id |-> Len(placed) + 1, type |-> "LIMIT",
                       side |-> order_side(signal), price |-> signal.entry_price ] }
       ELSE UNCHANGED <<placed, open_orders>>
    /\ UNCHANGED <<now, order_pairs, sizing>>
    /\ UNCHANGED monitorVars
    /\ UNCHANGED serviceVars

\* one row of the analysis file taken through one iteration of monitor_and_trade:
\* read_trading_signals, the filter, then the body of execute_trading_signals' loop
ProcessSignal ==
    \E signal \in Signals :
      \E result \in trade_results(signal, now) : Processed(signal, result)

\* the venue fills or cancels an open entry order: it leaves the open orders
OrderLeavesBook ==
    \E order \in open_orders :
      /\ open_orders' = open_orders \ {order}
      /\ UNCHANGED <<now, executed_signals, order_pairs, placed,
                     last_result, sizing>>
      /\ UNCHANGED monitorVars
      /\ UNCHANGED serviceVars

\* time passes (time.sleep(interval) and the time the calls take)
ClockAdvance ==
    \E t \in Instants :
      /\ t > now
      /\ now' = t
      /\ UNCHANGED <<executed_signals, order_pairs, open_orders,
                     placed, last_result, sizing>>
      /\ UNCHANGED monitorVars
      /\ UNCHANGED serviceVars

\* float(signal_parts[2]) of a stored key
key_entry_price(signal_key) ==
    CHOOSE p \in EntryPrices : price_text(p) = signal_key[5]

\* clean_expired_signals: the keys it deletes
expired_keys(t) ==
    { signal_key \in DOMAIN executed_signals :
        /\ t - executed_signals[signal_key] >= CooldownSeconds
        /\ \E pair \in order_pairs :
              /\ pair.symbol = signal_key[1]
              /\ pair.side = signal_key[3]
              /\ pair.entry_price # None
              /\ within_tolerance(pair.entry_price, key_entry_price(signal_key))
              /\ pair.status \in {"closed_by_stop_loss", "closed_by_take_profit"} }

\* clean_expired_signals, run by __init__ and by monitor_and_trade every 4 hours; here
\* it may run at any time
CleanExpiredSignals ==
    /\ executed_signals' =
          [ k \in DOMAIN executed_signals \ expired_keys(now) |-> executed_signals[k] ]
    /\ UNCHANGED <<now, order_pairs, open_orders, placed, last_result, sizing>>
    /\ UNCHANGED monitorVars
    /\ UNCHANGED serviceVars

\* the statistics of calculate_win_rate_statistics: rates and ratios in hundredths
RecentWinRates == {30, 40, 50, 60, 65}

ProfitFactors == {70, 80, 100, 150, 180}

MaxConsecutiveLosses == {1, 3, 4, 5, 6}

\* signal_quality in hundredths, risk_percentage in basis points (200 is 2%)
SignalQualities == {0, 50, 100}

RiskPercentages == {5, 200, 1000}

\* a percentage of the account is kept in basis points times AdjustmentScale: three
\* factors in tenths and the signal quality factor in hundredths
AdjustmentScale == 10 * 10 * 10 * 100

\* a threshold that also raises the factor at a rate of exactly 0.6
win_rate_factor_inclusive(recent_win_rate) ==
    IF recent_win_rate >= 60 THEN 12
    ELSE IF recent_win_rate < 40 THEN 7 ELSE 10

win_rate_factor(recent_win_rate) ==
    IF recent_win_rate > 60 THEN 12
    ELSE IF recent_win_rate < 40 THEN 7 ELSE 10

profit_factor_adjustment(profit_factor) ==
    IF profit_factor > 150 THEN 11
    ELSE IF profit_factor < 80 THEN 8 ELSE 10

consecutive_loss_factor(max_consecutive_losses) ==
    IF max_consecutive_losses > 5 THEN 6
    ELSE IF max_consecutive_losses > 3 THEN 8 ELSE 10

\* 0.5 + (signal_quality * 0.5)
signal_quality_factor(signal_quality) == 50 + (signal_quality * 50) \div 100

total_adjustment(stats, signal_quality) ==
    win_rate_factor(stats.recent_win_rate)
        * profit_factor_adjustment(stats.profit_factor)
        * consecutive_loss_factor(stats.max_consecutive_losses)
        * signal_quality_factor(signal_quality)

Max(a, b) == IF a > b THEN a ELSE b

\* base * total_adjustment, then min(..., 0.05), then max(..., 0.001)
final_position_percentage(stats, signal_quality, risk_percentage) ==
    Max(Min(risk_percentage * total_adjustment(stats, signal_quality),
            500 * AdjustmentScale),
        10 * AdjustmentScale)

\* number of calls of calculate_position_size in one behaviour (no call depends on
\* an earlier one)
MaxSizings == 1

\* the trades table: data/trading_history.db is missing, holds no closed trade, or
\* holds closed trades
TradeHistories == {"no_database", "no_trades", "trades"}

\* statistics that start from a losing record
default_statistics_losing ==
    [ recent_win_rate |-> 30, profit_factor |-> 100, max_consecutive_losses |-> 0 ]

\* what calculate_win_rate_statistics returns without a database or closed trades
default_statistics ==
    [ recent_win_rate |-> 50, profit_factor |-> 100, max_consecutive_losses |-> 0 ]

\* calculate_win_rate_statistics
calculate_win_rate_statistics(trade_history) ==
    IF trade_history = "trades"
    THEN [ recent_win_rate : RecentWinRates, profit_factor : ProfitFactors,
           max_consecutive_losses : MaxConsecutiveLosses ]
    ELSE {default_statistics}

\* the venue's account: None when futures_account fails, else the USDT balance
AccountBalances == {None, 0, 1000}

\* float(account_info.get('availableBalance', 0)): get_account_info writes the balance
\* under 'available_balance', so the default is read
available_balance(account_info) == 0

\* quantities are in thousandths (quantity_precision 3); (position_amount * leverage)
\* / current_price with the percentage in whole basis points
sized_quantity(balance, percentage, leverage, current_price) ==
    (balance * (percentage \div AdjustmentScale) * leverage) \div (10 * current_price)

\* a sizer that reads the venue's balance and the configured leverage and divides by
\* 1 when the price is missing
returned_quantity_unpriced(account_info, percentage, current_price) ==
    IF account_info = None THEN 0
    ELSE sized_quantity(account_info, percentage, TradingLeverage,
                        IF current_price = None THEN 1 ELSE current_price)

\* what calculate_position_size returns: 0.0 without account information, 0.0
\* without a price, and 0.0 from the handler of the AttributeError that the call of
\* self.get_leverage raises (BinanceTrader defines no get_leverage)
returned_quantity(account_info, percentage, current_price) ==
    IF account_info = None THEN 0
    ELSE IF current_price = None THEN 0
    ELSE 0

calculate_position_size ==
    \E account_info \in AccountBalances, current_price \in CurrentPrices,
       signal_quality \in SignalQualities, risk_percentage \in RiskPercentages,
       trade_history \in TradeHistories :
      \E stats \in calculate_win_rate_statistics(trade_history) :
        LET percentage == final_position_percentage(stats, signal_quality,
                                                    risk_percentage)
        IN
        /\ sizing.calls < MaxSizings
        /\ sizing' =
              [ calls |-> sizing.calls + 1,
                trade_history |-> trade_history,
                recent_win_rate |-> stats.recent_win_rate,
                profit_factor |-> stats.profit_factor,
                max_consecutive_losses |-> stats.max_consecutive_losses,
                signal_quality |-> signal_quality,
                risk_percentage |-> risk_percentage,
                account_balance |-> account_info,
                current_price |-> current_price,
                final_position_percentage |->
                    IF account_info = None THEN None ELSE percentage,
                quantity |-> returned_quantity(account_info, percentage,
                                               current_price) ]
        /\ UNCHANGED <<now, executed_signals, order_pairs, open_orders, placed,
                       last_result>>
        /\ UNCHANGED monitorVars
        /\ UNCHANGED serviceVars

TraderInit ==
    /\ now = 0
    /\ executed_signals = << >>
    /\ order_pairs = {}
    /\ open_orders = {}
    /\ placed = << >>
    /\ last_result = "none"
    /\ sizing = [ calls |-> 0, trade_history |-> "no_database",
                  recent_win_rate |-> 50, profit_factor |-> 100,
                  max_consecutive_losses |-> 0, signal_quality |-> 50,
                  risk_percentage |-> 200, account_balance |-> None,
                  current_price |-> None, final_position_percentage |-> None,
                  quantity |-> None ]

TraderNext ==
    \/ ProcessSignal
    \/ OrderLeavesBook
    \/ ClockAdvance
    \/ CleanExpiredSignals

-----------------------------------------------------------------------------
(* Part II: the order monitor *)

\* orders the monitor tracks in one behaviour
MaxTracked == 1

\* number of orders tracked at once in the runs with two orders
MaxPair == 2

\* passes of the monitoring loop in one behaviour
MaxTicks == 2

\* the readings of an order the history field `seen` records
FirstReadings == 2

MonitorSymbols == {"BTCUSDT", "DOGEUSDT"}

\* realtime_symbols of update_order_prices and symbols_to_monitor of
\* background_monitoring (of the symbols of the model)
realtime_symbols == {"BTCUSDT"}

invalid_symbols ==
    {"ALCHUSDT", "USDT", "USDTUSDT", "RFCUSDT", "ZBCNUSDT", "NANUSDT", "TAIUSDT"}

\* monitor.get_current_price(symbol): a price, or None
MonitorPrices == {None, 80, 90, 95, 105, 110, 112, 120}

\* what priceLookup answers in one pass, for each symbol
PriceLookups == [MonitorSymbols -> MonitorPrices]

\* low_price and high_price of monitor.get_price(symbol), or no answer
PriceInfos ==
    { info \in [low_price : {95, 105}, high_price : {95, 105}] :
        info.low_price <= info.high_price }

long_labels == {"duo", "zuoduo"}
short_labels == {"kong", "zuokong"}

\* what the operator sends to handle_add_order (0: the field is not sent)
AddOrderData ==
    { [symbol |-> "BTCUSDT",  direction |-> "zuoduo",  entry_price |-> 100,
       stop_loss |-> 90,  target_price |-> 120],
      [symbol |-> "BTCUSDT",  direction |-> "duo",     entry_price |-> 100,
       stop_loss |-> 90,  target_price |-> 120],
      [symbol |-> "BTCUSDT",  direction |-> "zuokong", entry_price |-> 100,
       stop_loss |-> 110, target_price |-> 80],
      [symbol |-> "BTCUSDT",  direction |-> "kong",    entry_price |-> 100,
       stop_loss |-> 110, target_price |-> 80],
      [symbol |-> "BTCUSDT",  direction |-> "duodan",  entry_price |-> 100,
       stop_loss |-> 90,  target_price |-> 120],
      [symbol |-> "BTCUSDT",  direction |-> "zuoduo",  entry_price |-> 100,
       stop_loss |-> 0,   target_price |-> 0],
      [symbol |-> "DOGEUSDT", direction |-> "zuoduo",  entry_price |-> 100,
       stop_loss |-> 90,  target_price |-> 120],
      [symbol |-> "DOGEUSDT", direction |-> "zuokong", entry_price |-> 100,
       stop_loss |-> 110, target_price |-> 80] }

\* rows monitor_csv_file finds in the analysis file: a row without a target column
CsvRows ==
    { [symbol |-> "BTCUSDT", direction |-> "zuoduo", entry_price |-> 100,
       stop_loss |-> 90, target_price |-> None] }

\* (a - b) / entry * 100, in hundredths of a percent
percent(difference, entry_price) == (difference * 10000) \div entry_price

\* the order object of create_order_object and of handle_add_order
create_order_object(id_num, row, target_price, stop_loss, publish_time, source) ==
    [ id |-> id_num, symbol |-> row.symbol, direction |-> row.direction,
      entry_price |-> row.entry_price, target_price |-> target_price,
      stop_loss |-> stop_loss, publish_time |-> publish_time,
      status |-> "active", is_completed |-> FALSE,
      has_entered |-> FALSE, current_price |-> None, profit_pct |-> None,
      exit_price |-> None, result |-> "-", source |-> source,
      exit_time |-> None, hold_time |-> None, hold_time_minutes |-> None,
      seen |-> << >> ]

\* the time an order added now is published: after the row of the running pass and
\* before the row of the next one (rows are stamped 2 * tick)
publish_now == 2 * tick + 1

\* datetime.now() when a pass completes an order: the passes of a loop pass run after
\* its row is written
exit_now == 2 * tick + 1

\* (exit_time - entry_time).total_seconds() / 60, entry_time being the publish time
hold_minutes(order, exit_time) == exit_time - order.publish_time

\* handle_add_order's defaults for a stop that is not sent
default_stop_loss(direction, entry_price) ==
    IF direction = "duo" THEN (entry_price * 95) \div 100
    ELSE (entry_price * 105) \div 100

\* handle_add_order's defaults for a target that is not sent
default_target_price(direction, entry_price, stop_loss) ==
    IF direction = "duo" THEN entry_price + (entry_price - stop_loss) * 2
    ELSE entry_price - (stop_loss - entry_price) * 2

\* max([order.get('id', 0) ...], default=0)
max_id(orders) ==
    IF Len(orders) = 0 THEN 0
    ELSE CHOOSE m \in { orders[i].id : i \in DOMAIN orders } :
            \A i \in DOMAIN orders : orders[i].id <= m

Reverse(seq) == [i \in DOMAIN seq |-> seq[Len(seq) + 1 - i]]

\* order['current_price'] = current_price; `seen` keeps the first readings written
record_reading(order, current_price) ==
    [order EXCEPT !.current_price = current_price,
                  !.seen = IF Len(@) < FirstReadings
                           THEN Append(@, current_price) ELSE @]

\* update_order_prices: the running profit of an active order
running_profit_pct(direction, entry_price, current_price) ==
    IF direction \in long_labels
    THEN percent(current_price - entry_price, entry_price)
    ELSE IF direction \in short_labels
    THEN percent(entry_price - current_price, entry_price)
    ELSE percent(current_price - entry_price, entry_price)

\* the long comparisons made whatever the direction
price_settlement_one_way(direction, current_price, target_price, stop_loss) ==
    IF target_price = None \/ stop_loss = None THEN "-"
    ELSE IF direction \in long_labels \cup short_labels
    THEN IF current_price >= target_price THEN "zhiying"
         ELSE IF current_price <= stop_loss THEN "zhisun" ELSE "-"
    ELSE "-"

\* update_order_prices: the comparisons with target and stop; "-" leaves the order
price_settlement(direction, current_price, target_price, stop_loss) ==
    IF target_price = None \/ stop_loss = None THEN "-"
    ELSE IF direction \in long_labels
    THEN IF current_price >= target_price THEN "zhiying"
         ELSE IF current_price <= stop_loss THEN "zhisun" ELSE "-"
    ELSE IF direction \in short_labels
    THEN IF current_price <= target_price THEN "zhiying"
         ELSE IF current_price >= stop_loss THEN "zhisun" ELSE "-"
    ELSE "-"

\* update_order_prices: the profit written at completion, round(profit_pct, 2)
final_profit_pct(direction, entry_price, exit_price) ==
    IF direction = "zuoduo"
    THEN percent(exit_price - entry_price, entry_price)
    ELSE percent(entry_price - exit_price, entry_price)

\* a pass that takes every answer of get_current_price as a price
price_always_read(current_price) == FALSE

\* `if current_price is None`: the pass skips the order
price_unavailable(current_price) == current_price = None

\* update_order_prices: the body of its loop for one order
price_updated(order, lookup) ==
    LET current_price == lookup[order.symbol] IN
    IF order.status = "completed" \/ order.is_completed THEN order
    ELSE IF order.symbol \in invalid_symbols THEN order
    ELSE IF order.symbol \notin realtime_symbols THEN order
    ELSE IF price_unavailable(current_price) THEN order
    ELSE LET priced == record_reading(order, current_price) IN
         IF ~(order.entry_price > 0) THEN priced
         ELSE LET running == [priced EXCEPT !.profit_pct =
                                running_profit_pct(order.direction, order.entry_price,
                                                   current_price)]
                  result == price_settlement(order.direction, current_price,
                                             order.target_price, order.stop_loss)
              IN  IF result = "-" THEN running
                  ELSE [running EXCEPT
                          !.is_completed = TRUE,
                          !.status = "completed",
                          !.exit_price = current_price,
                          !.result = result,
                          !.source = "realtime",
                          !.exit_time = exit_now,
                          !.hold_time_minutes = hold_minutes(order, exit_now),
                          !.hold_time = hold_minutes(order, exit_now) \div 60,
                          !.profit_pct = final_profit_pct(order.direction,
                                                          order.entry_price,
                                                          current_price)]

\* the labels check_entry_triggered takes as long, and as short
entry_long_labels == {"duodan", "zuoduo", "duotou", "LONG"}
entry_short_labels == {"kongdan", "zuokong", "kongtou", "SHORT"}

\* check_entry_triggered: a row at or after the publish time reaches the entry price
check_entry_triggered(order, history) ==
    LET after_publish ==
            { i \in DOMAIN history :
                /\ history[i].symbol = order.symbol
                /\ history[i].timestamp >= order.publish_time }
    IN  /\ order.publish_time # None
        /\ IF order.direction \in entry_long_labels
           THEN \E i \in after_publish : history[i].low_price <= order.entry_price
           ELSE IF order.direction \in entry_short_labels
           THEN \E i \in after_publish : history[i].high_price >= order.entry_price
           ELSE \E i \in after_publish : history[i].low_price <= order.entry_price

\* an order update_entry_status_for_orders looks at
entry_unknown(order) == order.status = "active" /\ ~order.has_entered

update_entry_status_for_orders(orders, history) ==
    [ i \in DOMAIN orders |->
        IF entry_unknown(orders[i])
        THEN [orders[i] EXCEPT !.has_entered = check_entry_triggered(orders[i], history)]
        ELSE orders[i] ]

\* load_price_history: the cached rows while the cache is fresh and not empty, else
\* the rows of the file (expired: PRICE_HISTORY_CACHE_DURATION has passed)
load_price_history(expired) ==
    IF expired \/ Len(price_history_cache) = 0
    THEN price_history ELSE price_history_cache

\* the seconds background_monitoring sleeps between two loop passes
SleepSeconds == 20

\* min_push_interval, in seconds
min_push_interval == 15

\* should_push_data hashes the first orders of each list only
HashedOrders == 5

\* time.time() in the running loop pass: a pass follows the one before after the
\* sleep, and its steps take no time
current_time == SleepSeconds * tick

\* last_data_hash before the first push and after a forced one (the empty string)
no_hash == << >>

\* the orders should_push_data reads of a list, orders[:5]
hashed(orders) == SubSeq(orders, 1, Min(HashedOrders, Len(orders)))

\* should_push_data's current_hash: the digest of data_str, which holds the two
\* lengths, id and profit_pct of the first active orders and id and result of the
\* first completed ones
data_hash(active, completed) ==
    << Len(active), Len(completed),
       [i \in DOMAIN hashed(active) |-> <<active[i].id, active[i].profit_pct>>],
       [i \in DOMAIN hashed(completed) |-> <<completed[i].id, completed[i].result>>] >>

\* a gate that compares the fingerprints only
should_push_data_any_time(time, current_hash) == current_hash # last_data_hash

\* what should_push_data returns at `time` for the fingerprint current_hash
should_push_data(time, current_hash) ==
    /\ ~(time - last_push_time < min_push_interval)
    /\ current_hash # last_data_hash

\* a push at the end of a pass that waits for the interval as should_push_data does
forced_push_when_due(orders_updated, step) ==
    IF orders_updated /\ ~(current_time - last_push_time < min_push_interval)
    THEN /\ last_data_hash' = no_hash
         /\ last_push_time' = current_time
         /\ emitted' = emitted \cup {step}
         /\ forced_snapshot' = <<active_orders', completed_orders'>>
    ELSE UNCHANGED publisherVars

\* the end of update_order_prices and of update_all_orders_status: with an order
\* moved, the hash is reset, the push time is set and orders_update is emitted
forced_push(orders_updated, step) ==
    IF orders_updated
    THEN /\ last_data_hash' = no_hash
         /\ last_push_time' = current_time
         /\ emitted' = emitted \cup {step}
         /\ forced_snapshot' = <<active_orders', completed_orders'>>
    ELSE UNCHANGED publisherVars

\* the last step of a pass of background_monitoring: orders_update is emitted when
\* should_push_data says so, then the loop sleeps
push_orders_update ==
    /\ phase = "should_push_data"
    /\ LET current_hash == data_hash(active_orders, completed_orders) IN
        IF should_push_data(current_time, current_hash)
        THEN /\ last_data_hash' = current_hash
             /\ last_push_time' = current_time
             /\ emitted' = emitted \cup {"should_push_data"}
             /\ forced_snapshot' = << >>
        ELSE UNCHANGED publisherVars
    /\ phase' = "collect_prices"
    /\ UNCHANGED <<active_orders, completed_orders, price_history,
                   price_history_cache, tick>>
    /\ UNCHANGED traderVars
    /\ UNCHANGED <<orders_to_complete, serviceVars>>

\* the first step of a pass of background_monitoring: a row for the monitored symbol
collect_prices ==
    /\ phase = "collect_prices"
    /\ tick < MaxTicks
    /\ tick' = tick + 1
    /\ \/ UNCHANGED price_history
       \/ \E info \in PriceInfos :
            price_history' = Append(price_history,
                [timestamp |-> 2 * (tick + 1), symbol |-> "BTCUSDT",
                 low_price |-> info.low_price, high_price |-> info.high_price])
    /\ phase' = "update_order_prices"
    /\ emitted' = {}
    /\ UNCHANGED <<active_orders, completed_orders, price_history_cache,
                   last_data_hash, last_push_time, forced_snapshot>>
    /\ UNCHANGED traderVars
    /\ UNCHANGED <<orders_to_complete, serviceVars>>

\* the loop of update_order_prices over the active orders
price_pass(orders, lookup) ==
    [i \in DOMAIN orders |-> price_updated(orders[i], lookup)]

\* the orders a pass appends to completed_orders, from the last index to the first
orders_moved(updated) == Reverse(SelectSeq(updated, LAMBDA o : o.is_completed))

\* a pass that appends the completed orders and leaves them in active_orders
orders_left_undeleted(updated) == updated

\* what `del active_orders[i]` leaves of the active orders
orders_left(updated) == SelectSeq(updated, LAMBDA o : ~o.is_completed)

\* update_order_prices, its prices drawn from `lookups`
update_order_prices_with(lookups) ==
    /\ phase = "update_order_prices"
    /\ \E lookup \in lookups, expired \in BOOLEAN :
         LET updated == price_pass(active_orders, lookup)
             remaining == orders_left(updated)
             history == load_price_history(expired)
         IN  /\ completed_orders' = completed_orders \o orders_moved(updated)
             /\ active_orders' = update_entry_status_for_orders(remaining, history)
             /\ price_history_cache' =
                   IF \E i \in DOMAIN remaining : entry_unknown(remaining[i])
                   THEN history ELSE price_history_cache
             /\ forced_push(Len(orders_moved(updated)) > 0, "update_order_prices")
    /\ phase' = "update_all_orders_status"
    /\ UNCHANGED <<price_history, tick>>
    /\ UNCHANGED traderVars
    /\ UNCHANGED <<orders_to_complete, serviceVars>>

update_order_prices == update_order_prices_with(PriceLookups)

\* update_all_orders_status: the running profit of an active order
status_profit_pct(direction, entry_price, current_price) ==
    IF direction \in long_labels
    THEN percent(current_price - entry_price, entry_price)
    ELSE IF direction \in short_labels
    THEN percent(entry_price - current_price, entry_price)
    ELSE percent(current_price - entry_price, entry_price)

\* the short comparisons made whatever the direction
status_settlement_one_way(direction, current_price, target_price, stop_loss) ==
    IF target_price = None \/ stop_loss = None THEN "-"
    ELSE IF direction \in long_labels \cup short_labels
    THEN IF current_price <= target_price THEN "zhiying"
         ELSE IF current_price >= stop_loss THEN "zhisun" ELSE "-"
    ELSE "-"

\* update_all_orders_status: the comparisons with target and stop
status_settlement(direction, current_price, target_price, stop_loss) ==
    IF target_price = None \/ stop_loss = None THEN "-"
    ELSE IF direction \in long_labels
    THEN IF current_price >= target_price THEN "zhiying"
         ELSE IF current_price <= stop_loss THEN "zhisun" ELSE "-"
    ELSE IF direction \in short_labels
    THEN IF current_price <= target_price THEN "zhiying"
         ELSE IF current_price >= stop_loss THEN "zhisun" ELSE "-"
    ELSE "-"

\* a status pass that settles an order only on the second reading of one price
status_updated_on_confirmation(order, lookup) ==
    LET current_price == lookup[order.symbol] IN
    IF order.symbol \in invalid_symbols \/ price_unavailable(current_price) THEN order
    ELSE LET priced == [record_reading(order, current_price) EXCEPT !.profit_pct =
                          status_profit_pct(order.direction, order.entry_price,
                                            current_price)]
             result == status_settlement(order.direction, current_price,
                                         order.target_price, order.stop_loss)
         IN  IF result = "-" \/ order.current_price # current_price THEN priced
             ELSE [priced EXCEPT
                     !.is_completed = TRUE,
                     !.exit_price = current_price,
                     !.exit_time = exit_now,
                     !.result = result,
                     !.status = "completed",
                     !.hold_time = hold_minutes(order, exit_now) \div 60]

\* update_all_orders_status: the body of its loop for one order (every order of the
\* model has an entry price above 0, so current_price_float is always assigned)
status_updated(order, lookup) ==
    LET current_price == lookup[order.symbol] IN
    IF order.status = "completed" \/ order.is_completed THEN order
    ELSE IF order.symbol \in invalid_symbols THEN order
    ELSE IF price_unavailable(current_price) THEN order
    ELSE LET priced == [record_reading(order, current_price) EXCEPT !.profit_pct =
                          IF order.entry_price # None /\ order.entry_price # 0
                          THEN status_profit_pct(order.direction, order.entry_price,
                                                 current_price)
                          ELSE 0]
             result == status_settlement(order.direction, current_price,
                                         order.target_price, order.stop_loss)
         IN  IF result = "-" THEN priced
             ELSE [priced EXCEPT
                     !.is_completed = TRUE,
                     !.exit_price = current_price,
                     !.exit_time = exit_now,
                     !.result = result,
                     !.status = "completed",
                     !.hold_time = hold_minutes(order, exit_now) \div 60]

\* the loop of update_all_orders_status over the active orders
status_pass(orders, lookup) ==
    [i \in DOMAIN orders |-> status_updated(orders[i], lookup)]

\* update_all_orders_status, its prices drawn from `lookups`
update_all_orders_status_with(lookups) ==
    /\ phase = "update_all_orders_status"
    /\ \E lookup \in lookups :
         LET updated == status_pass(active_orders, lookup)
         IN  /\ completed_orders' = completed_orders \o orders_moved(updated)
             /\ active_orders' = orders_left(updated)
             /\ forced_push(Len(orders_moved(updated)) > 0, "update_all_orders_status")
    /\ phase' = "monitor_csv_file"
    /\ UNCHANGED <<price_history, price_history_cache, tick>>
    /\ UNCHANGED traderVars
    /\ UNCHANGED <<orders_to_complete, serviceVars>>

update_all_orders_status == update_all_orders_status_with(PriceLookups)

\* monitor_csv_file's check for an order that is already tracked
order_exists(row) ==
    \E i \in DOMAIN (active_orders \o completed_orders) :
        LET existing_order == (active_orders \o completed_orders)[i] IN
        existing_order.symbol = row.symbol /\ existing_order.entry_price = row.entry_price

\* monitor_csv_file, the last step of a pass: the check is not due or finds no new
\* row, or it adds the order of a new row (the id, a string built from symbol, price
\* and time in the source, is the next free number here; the row carries its own time)
monitor_csv_file ==
    /\ phase = "monitor_csv_file"
    /\ \/ UNCHANGED active_orders
       \/ \E row \in CsvRows :
            /\ row.entry_price > 0
            /\ ~order_exists(row)
            /\ Len(active_orders) + Len(completed_orders) < MaxTracked
            /\ active_orders' = Append(active_orders,
                  create_order_object(max_id(active_orders \o completed_orders) + 1,
                      row, row.target_price, row.stop_loss, 0,
                      "all_analysis_results.csv"))
    /\ phase' = "should_push_data"
    /\ UNCHANGED <<completed_orders, price_history, price_history_cache, tick>>
    /\ UNCHANGED publisherVars
    /\ UNCHANGED traderVars
    /\ UNCHANGED <<orders_to_complete, serviceVars>>

\* handle_add_order, with the admin password, for an order of `orders_data` while
\* fewer than `limit` orders are tracked: it runs between any two steps of the loop
handle_add_order_of(orders_data, limit) ==
    \E data \in orders_data :
      LET entry_price == data.entry_price
          stop_loss == IF data.stop_loss <= 0
                       THEN default_stop_loss(data.direction, entry_price)
                       ELSE data.stop_loss
          target_price == IF data.target_price <= 0
                          THEN default_target_price(data.direction, entry_price, stop_loss)
                          ELSE data.target_price
      IN  /\ entry_price > 0
          /\ Len(active_orders) + Len(completed_orders) < limit
          /\ active_orders' = Append(active_orders,
                create_order_object(max_id(active_orders \o completed_orders) + 1,
                    data, target_price, stop_loss, publish_now, "None"))
          /\ UNCHANGED <<completed_orders, price_history, price_history_cache,
                         tick, phase>>
          /\ UNCHANGED publisherVars
          /\ UNCHANGED traderVars
          /\ UNCHANGED <<orders_to_complete, serviceVars>>

handle_add_order == handle_add_order_of(AddOrderData, MaxTracked)

\* the orders of the operator and the prices of the runs that track two orders
PairOrderData ==
    { [symbol |-> "BTCUSDT",  direction |-> "zuokong", entry_price |-> 100,
       stop_loss |-> 110, target_price |-> 80],
      [symbol |-> "DOGEUSDT", direction |-> "zuoduo",  entry_price |-> 100,
       stop_loss |-> 90,  target_price |-> 120] }

PairPrices == {None, 95, 120}

PairLookups == [MonitorSymbols -> PairPrices]

\* the fields handle_edit_order copies from updated_data
allowed_fields == {"symbol", "direction", "entry_price", "target_price", "stop_loss",
                   "channel", "publish_time", "result"}

\* what the operator sends to handle_edit_order as updated_data
EditData == { [result |-> "zhiying"], [stop_loss |-> 120] }

\* the order after handle_edit_order's loop over allowed_fields
edited(order, updated_data) ==
    [field \in DOMAIN order |->
        IF field \in allowed_fields \cap DOMAIN updated_data
        THEN updated_data[field] ELSE order[field]]

\* handle_edit_order (it asks for no password): the first active order with the id
handle_edit_order ==
    \E order_index \in DOMAIN active_orders, updated_data \in EditData :
        /\ \A i \in 1..(order_index - 1) :
              active_orders[i].id # active_orders[order_index].id
        /\ active_orders' = [active_orders EXCEPT
                                ![order_index] = edited(@, updated_data)]
        /\ UNCHANGED <<completed_orders, price_history, price_history_cache,
                       tick, phase>>
        /\ UNCHANGED publisherVars
        /\ UNCHANGED traderVars
        /\ UNCHANGED <<orders_to_complete, serviceVars>>

\* handle_delete_order, with the admin password: the active orders with the id go
handle_delete_order ==
    \E i \in DOMAIN active_orders :
        LET order_id == active_orders[i].id IN
        /\ active_orders' = SelectSeq(active_orders, LAMBDA o : o.id # order_id)
        /\ UNCHANGED <<completed_orders, price_history, price_history_cache,
                       tick, phase>>
        /\ UNCHANGED publisherVars
        /\ UNCHANGED traderVars
        /\ UNCHANGED <<orders_to_complete, serviceVars>>

\* clear_data_endpoint (it asks for no password)
clear_data_endpoint ==
    /\ active_orders' = << >>
    /\ completed_orders' = << >>
    /\ last_data_hash' = no_hash
    /\ last_push_time' = current_time
    /\ forced_snapshot' = << << >>, << >> >>
    /\ UNCHANGED <<price_history, price_history_cache, tick, phase, emitted>>
    /\ UNCHANGED traderVars
    /\ UNCHANGED <<orders_to_complete, serviceVars>>

\* save_completed_orders_to_excel, called by a pass that has moved orders: the
\* completed orders it writes to new_completed_orders.xlsx
new_completed_orders(completed) ==
    SelectSeq(completed, LAMBDA order : order.source = "realtime")

\* the indices update_order_prices' loop appends to orders_to_complete
completed_indices(updated) == {i \in DOMAIN updated : updated[i].is_completed}

\* the maximum of a set of indices that is not empty
MaxOf(indices) == CHOOSE i \in indices : \A j \in indices : j <= i

\* seq without its element at index i
without(seq, i) == SubSeq(seq, 1, i - 1) \o SubSeq(seq, i + 1, Len(seq))

RECURSIVE move_indexed(_, _, _)
\* update_order_prices' loop over sorted(orders_to_complete, reverse=True): an index
\* that is still valid has its order appended to completed and deleted from active
move_indexed(active, completed, indices) ==
    IF indices = {} THEN [active |-> active, completed |-> completed]
    ELSE LET i == MaxOf(indices) IN
         IF i <= Len(active)
         THEN move_indexed(without(active, i), Append(completed, active[i]),
                           indices \ {i})
         ELSE move_indexed(active, completed, indices \ {i})

\* the first half of update_order_prices as another thread sees it: the loop over
\* active_orders has written the orders and collected the indices to move
update_order_prices_iterate(lookups) ==
    /\ phase = "update_order_prices"
    /\ \E lookup \in lookups :
         LET updated == price_pass(active_orders, lookup)
         IN  /\ active_orders' = updated
             /\ orders_to_complete' = completed_indices(updated)
    /\ phase' = "update_order_prices_move"
    /\ UNCHANGED <<completed_orders, price_history, price_history_cache, tick>>
    /\ UNCHANGED publisherVars
    /\ UNCHANGED <<traderVars, serviceVars>>

\* the second half of update_order_prices: the collected indices are moved, the
\* entry status is refreshed and the forced push is made
update_order_prices_move ==
    /\ phase = "update_order_prices_move"
    /\ \E expired \in BOOLEAN :
         LET moved == move_indexed(active_orders, completed_orders, orders_to_complete)
             history == load_price_history(expired)
         IN  /\ completed_orders' = moved.completed
             /\ active_orders' = update_entry_status_for_orders(moved.active, history)
             /\ price_history_cache' =
                   IF \E i \in DOMAIN moved.active : entry_unknown(moved.active[i])
                   THEN history ELSE price_history_cache
             /\ forced_push(orders_to_complete # {}, "update_order_prices")
    /\ orders_to_complete' = {}
    /\ phase' = "update_all_orders_status"
    /\ UNCHANGED <<price_history, tick>>
    /\ UNCHANGED <<traderVars, serviceVars>>

MonitorInit ==
    /\ active_orders = << >>
    /\ completed_orders = << >>
    /\ price_history = << >>
    /\ price_history_cache = << >>
    /\ tick = 0
    /\ phase = "collect_prices"
    /\ last_data_hash = no_hash
    /\ last_push_time = 0
    /\ emitted = {}
    /\ forced_snapshot = << >>
    /\ orders_to_complete = {}

MonitorNext ==
    \/ collect_prices
    \/ update_order_prices
    \/ update_all_orders_status
    \/ monitor_csv_file
    \/ push_orders_update
    \/ handle_add_order

\* the loop with two orders of the operator
PairNext ==
    \/ collect_prices
    \/ update_order_prices_with(PairLookups)
    \/ update_all_orders_status_with(PairLookups)
    \/ monitor_csv_file
    \/ push_orders_update
    \/ handle_add_order_of(PairOrderData, MaxPair)

\* the loop and every handler of the operator
OperatorNext ==
    \/ collect_prices
    \/ update_order_prices_with(PairLookups)
    \/ update_all_orders_status_with(PairLookups)
    \/ monitor_csv_file
    \/ push_orders_update
    \/ handle_add_order_of(PairOrderData, MaxTracked)
    \/ handle_edit_order
    \/ handle_delete_order
    \/ clear_data_endpoint

\* the prices of the runs with threads: DOGEUSDT has none
InterleavedLookups == { lookup \in PairLookups : lookup["DOGEUSDT"] = None }

\* the loop with two orders, update_order_prices in two steps, and the operator in
\* another thread, adding at any time and deleting while update_order_prices runs
\* (ids stay bounded: no delete once an id above MaxPair is given out)
InterleavedNext ==
    \/ collect_prices
    \/ update_order_prices_iterate(InterleavedLookups)
    \/ update_order_prices_move
    \/ update_all_orders_status_with(InterleavedLookups)
    \/ monitor_csv_file
    \/ push_orders_update
    \/ handle_add_order_of(PairOrderData, MaxPair)
    \/ /\ phase = "update_order_prices_move"
       /\ max_id(active_orders \o completed_orders) <= MaxPair
       /\ handle_delete_order

\* one advance of the loop: update_order_prices, then update_all_orders_status, both
\* reading `lookup`, the entry status taken from `history`
advance(orders, lookup, history) ==
    LET priced == price_pass(orders, lookup)
        entered == update_entry_status_for_orders(orders_left(priced), history)
        settled == status_pass(entered, lookup)
    IN  [ active |-> orders_left(settled),
          completed |-> orders_moved(priced) \o orders_moved(settled) ]

-----------------------------------------------------------------------------
(* Part III: the loop's life cycle, the retried request and the price cache *)

\* background_monitoring tasks started in one behaviour
MaxLoops == 3

\* where a background_monitoring task is: its checks before the loop, the loop's
\* test, the body of the loop, the sleep that ends the body, or after its `finally`
\* ("failed" when the checks before the loop returned, "stopped" when the loop ended)
LoopPlaces == {"starting", "test", "pass", "sleep", "stopped", "failed"}

\* a loop test that does not read the two flags
loop_continues_regardless == TRUE

\* the loop's test: `while monitor and monitor.keep_running and monitoring_active`
loop_continues == keep_running /\ monitoring_active

\* start_monitoring (the program's entry point calls it): nothing when
\* monitoring_active is set, else a new task
start_monitoring ==
    /\ ~monitoring_active
    /\ Len(loops) < MaxLoops
    /\ keep_running' = TRUE
    /\ loops' = Append(loops, "starting")
    /\ monitoring_active' = TRUE
    /\ UNCHANGED <<request, cacheVars, workerVars>>
    /\ UNCHANGED <<traderVars, monitorVars>>

\* stop_monitoring: nothing unless monitoring_active is set
stop_monitoring ==
    /\ monitoring_active
    /\ keep_running' = FALSE
    /\ monitoring_active' = FALSE
    /\ UNCHANGED <<loops, request, cacheVars, workerVars>>
    /\ UNCHANGED <<traderVars, monitorVars>>

\* the socket event start_monitoring: a new task unless monitoring_active is set;
\* monitor.keep_running is not written
handle_start_monitoring ==
    /\ ~monitoring_active
    /\ Len(loops) < MaxLoops
    /\ loops' = Append(loops, "starting")
    /\ monitoring_active' = TRUE
    /\ UNCHANGED <<keep_running, request, cacheVars, workerVars>>
    /\ UNCHANGED <<traderVars, monitorVars>>

\* the socket event stop_monitoring
handle_stop_monitoring ==
    /\ monitoring_active' = FALSE
    /\ keep_running' = FALSE
    /\ UNCHANGED <<loops, request, cacheVars, workerVars>>
    /\ UNCHANGED <<traderVars, monitorVars>>

\* POST /socket_start_monitoring
start_monitoring_endpoint ==
    /\ keep_running' = TRUE
    /\ UNCHANGED <<monitoring_active, loops, request, cacheVars, workerVars>>
    /\ UNCHANGED <<traderVars, monitorVars>>

\* POST /socket_stop_monitoring
stop_monitoring_endpoint ==
    /\ keep_running' = FALSE
    /\ UNCHANGED <<monitoring_active, loops, request, cacheVars, workerVars>>
    /\ UNCHANGED <<traderVars, monitorVars>>

\* background_monitoring's `finally` for the task l that ends at `place`
loop_ends(l, place) ==
    /\ loops' = [loops EXCEPT ![l] = place]
    /\ monitoring_active' = FALSE
    /\ keep_running' = FALSE

\* background_monitoring before its loop: the price test passes, or it fails and the
\* task returns through `finally`
background_monitoring_starts ==
    /\ \E l \in DOMAIN loops :
          /\ loops[l] = "starting"
          /\ \/ /\ loops' = [loops EXCEPT ![l] = "test"]
                /\ UNCHANGED <<monitoring_active, keep_running>>
             \/ loop_ends(l, "failed")
    /\ UNCHANGED <<request, cacheVars, workerVars>>
    /\ UNCHANGED <<traderVars, monitorVars>>

\* the loop's test: into the body, or out of the loop and through `finally`
background_monitoring_tests ==
    /\ \E l \in DOMAIN loops :
          /\ loops[l] = "test"
          /\ IF loop_continues
             THEN /\ loops' = [loops EXCEPT ![l] = "pass"]
                  /\ UNCHANGED <<monitoring_active, keep_running>>
             ELSE loop_ends(l, "stopped")
    /\ UNCHANGED <<request, cacheVars, workerVars>>
    /\ UNCHANGED <<traderVars, monitorVars>>

\* the body of the loop, from the price collection to the push: it reads no flag
background_monitoring_passes ==
    /\ \E l \in DOMAIN loops :
          /\ loops[l] = "pass"
          /\ loops' = [loops EXCEPT ![l] = "sleep"]
    /\ UNCHANGED <<monitoring_active, keep_running, request, cacheVars, workerVars>>
    /\ UNCHANGED <<traderVars, monitorVars>>

\* time.sleep(20) at the end of the body
background_monitoring_sleeps ==
    /\ \E l \in DOMAIN loops :
          /\ loops[l] = "sleep"
          /\ loops' = [loops EXCEPT ![l] = "test"]
    /\ UNCHANGED <<monitoring_active, keep_running, request, cacheVars, workerVars>>
    /\ UNCHANGED <<traderVars, monitorVars>>

\* the steps of the background_monitoring tasks
LoopStep ==
    \/ background_monitoring_starts
    \/ background_monitoring_tests
    \/ background_monitoring_passes
    \/ background_monitoring_sleeps

LifecycleNext ==
    \/ start_monitoring
    \/ stop_monitoring
    \/ handle_start_monitoring
    \/ handle_stop_monitoring
    \/ start_monitoring_endpoint
    \/ stop_monitoring_endpoint
    \/ background_monitoring_starts
    \/ background_monitoring_tests
    \/ background_monitoring_passes
    \/ background_monitoring_sleeps

\* _request's max_retries and retry_delay (seconds)
max_retries == 3
retry_delay == 2

\* the client methods _request is called with
RequestMethods == {"futures_symbol_ticker", "futures_account", "futures_create_order"}

\* what an attempt can raise: a connection or proxy error, an API error, the API
\* error with code -4068, anything else
RequestErrors == {"ConnectionError", "BinanceAPIException", "BinanceAPIException-4068",
                  "Exception"}

\* a wait that does not grow with the attempt
retry_sleep_flat(attempt) == retry_delay

\* the seconds _request sleeps after the failed attempt number `attempt` (from 0)
retry_sleep(attempt) == retry_delay * (attempt + 1)

\* a caller enters _request
request_call ==
    /\ request.status # "running"
    /\ \E method \in RequestMethods :
          request' = [ status |-> "running", method |-> method, attempt |-> 0,
                       errors |-> << >>, slept |-> << >> ]
    /\ UNCHANGED <<lifecycleVars, cacheVars, workerVars>>
    /\ UNCHANGED <<traderVars, monitorVars>>

\* one turn of _request's loop `for attempt in range(max_retries)`: the method
\* returns, or it raises and _request returns None (code -4068), sleeps and goes to
\* the next attempt, or raises to its caller at the last attempt
request_attempt ==
    /\ request.status = "running"
    /\ \/ request' = [request EXCEPT !.status = "returned"]
       \/ \E e \in RequestErrors :
            request' =
              IF e = "BinanceAPIException-4068"
              THEN [request EXCEPT !.status = "returned_none",
                                   !.errors = Append(@, e)]
              ELSE IF request.attempt < max_retries - 1
              THEN [request EXCEPT !.errors = Append(@, e),
                                   !.slept = Append(@, retry_sleep(request.attempt)),
                                   !.attempt = @ + 1]
              ELSE [request EXCEPT !.status = "raised",
                                   !.errors = Append(@, e)]
    /\ UNCHANGED <<lifecycleVars, cacheVars, workerVars>>
    /\ UNCHANGED <<traderVars, monitorVars>>

RequestNext ==
    \/ request_call
    \/ request_attempt

\* PRICE_CACHE_DURATION of the monitor's price cache, in seconds
PRICE_CACHE_DURATION == 30

\* the seconds one cache_key of get_current_price covers
CacheKeySeconds == 5

\* the times of the lookups
CacheInstants == {0, 4, 5, 20, 25, 30, 35}

\* what a fetch gives the monitor's cache: a price, or None when it fails
FetchedPrices == {None, 100, 101}

\* what futures_symbol_ticker gives the trader: a price, or None for a failed request
TickerPrices == {None, 0, 100, 101}

\* time passes between two lookups
time_passes ==
    /\ \E t \in CacheInstants :
          /\ t > now
          /\ now' = t
    /\ UNCHANGED <<executed_signals, order_pairs, open_orders, placed, last_result,
                   sizing>>
    /\ UNCHANGED <<monitorVars, serviceVars>>

\* get_cached_price's test: the symbol is cached and its entry has not expired
cache_fresh(symbol) ==
    /\ price_cache[symbol] # None
    /\ now - price_cache_time[symbol] < PRICE_CACHE_DURATION

\* get_cached_price of the monitor: the cached price while it is fresh, else the
\* fetched one, stored with its time unless the fetch failed
get_cached_price ==
    /\ \E symbol \in MonitorSymbols, current_price \in FetchedPrices :
          IF cache_fresh(symbol)
          THEN /\ served' = [by |-> "get_cached_price", price |-> price_cache[symbol],
                             age |-> now - price_cache_time[symbol]]
               /\ UNCHANGED <<price_cache, price_cache_time>>
          ELSE IF current_price # None
          THEN /\ price_cache' = [price_cache EXCEPT ![symbol] = current_price]
               /\ price_cache_time' = [price_cache_time EXCEPT ![symbol] = now]
               /\ served' = [by |-> "get_cached_price", price |-> current_price,
                             age |-> 0]
          ELSE /\ served' = [by |-> "get_cached_price", price |-> None, age |-> None]
               /\ UNCHANGED <<price_cache, price_cache_time>>
    /\ UNCHANGED <<lifecycleVars, request, cached_price, workerVars>>
    /\ UNCHANGED <<traderVars, monitorVars>>

\* _cached_get_price's result for what the ticker gave
ticker_price(ticker) == IF ticker = None \/ ticker <= 0 THEN None ELSE ticker

\* get_current_price of the trader for one symbol: the lru_cache entry of the running
\* cache_key, or a new entry for what _cached_get_price returns (a failure is an
\* entry too); entries of earlier keys are never looked up again
get_current_price ==
    /\ \E ticker \in TickerPrices :
          LET cache_key == now \div CacheKeySeconds
              entry == IF cached_price.cache_key = cache_key
                       THEN cached_price
                       ELSE [cache_key |-> cache_key, price |-> ticker_price(ticker),
                             fetched_at |-> now]
          IN  /\ cached_price' = entry
              /\ served' = [by |-> "get_current_price", price |-> entry.price,
                            age |-> IF entry.price = None THEN None
                                    ELSE now - entry.fetched_at]
    /\ UNCHANGED <<lifecycleVars, request, price_cache, price_cache_time, workerVars>>
    /\ UNCHANGED <<traderVars, monitorVars>>

CacheNext ==
    \/ time_passes
    \/ get_cached_price
    \/ get_current_price

-----------------------------------------------------------------------------
(* update_altcoin_prices: the price of every altcoin order, with retries *)

AltcoinOrders == 2
altcoin_max_retries == 3
\* passes of the retry loop the model follows for one order
MaxIterations == 5
AltcoinPrices == {10, 20}

\* update_altcoin_prices' test of its while loop
retry_loop_continues ==
    altcoin.retry_count < altcoin_max_retries /\ altcoin.current_price = None

\* background_monitoring calls update_altcoin_prices, whose for loop takes the first
\* order with retry_count = 0 and current_price = None
update_altcoin_prices ==
    /\ altcoin.index = 0
    /\ altcoin' = [altcoin EXCEPT !.index = 1, !.retry_count = 0,
                                   !.current_price = None, !.iterations = 0]
    /\ UNCHANGED <<lifecycleVars, request, cacheVars, file_manager, statistics>>
    /\ UNCHANGED <<traderVars, monitorVars>>

\* one pass of the while loop: monitor.get_current_price raises, which counts one
\* retry, or returns a price or None for the symbol and its base symbol
retry_loop_pass ==
    /\ altcoin.index \in 1..AltcoinOrders
    /\ retry_loop_continues
    /\ altcoin.iterations < MaxIterations
    /\ \/ altcoin' = [altcoin EXCEPT !.retry_count = @ + 1, !.iterations = @ + 1]
       \/ \E current_price \in {None} \cup AltcoinPrices :
             altcoin' = [altcoin EXCEPT !.current_price = current_price,
                                        !.iterations = @ + 1]
    /\ UNCHANGED <<lifecycleVars, request, cacheVars, file_manager, statistics>>
    /\ UNCHANGED <<traderVars, monitorVars>>

\* after the while loop: the order takes the price that was found, and the for loop
\* goes on to the next order or ends
retry_loop_exit ==
    /\ altcoin.index \in 1..AltcoinOrders
    /\ ~retry_loop_continues
    /\ altcoin' = [altcoin EXCEPT
          !.current_prices = IF altcoin.current_price # None
                             THEN [@ EXCEPT ![altcoin.index] = altcoin.current_price]
                             ELSE @,
          !.index = IF altcoin.index < AltcoinOrders THEN @ + 1 ELSE 0,
          !.retry_count = 0, !.current_price = None, !.iterations = 0]
    /\ UNCHANGED <<lifecycleVars, request, cacheVars, file_manager, statistics>>
    /\ UNCHANGED <<traderVars, monitorVars>>

AltcoinNext ==
    \/ update_altcoin_prices
    \/ retry_loop_pass
    \/ retry_loop_exit

-----------------------------------------------------------------------------
(* The profit factor of the closed trades *)

MaxTrades == 3
Pnls == {-20, -10, 0, 10, 20}

RECURSIVE sum(_)
sum(values) == IF values = << >> THEN 0 ELSE Head(values) + sum(Tail(values))

winning(pnl_history) == SelectSeq(pnl_history, LAMBDA pnl : pnl > 0)
losing(pnl_history) == SelectSeq(pnl_history, LAMBDA pnl : pnl < 0)

\* round(numerator / denominator, 2), in hundredths
round_ratio(numerator, denominator) ==
    (200 * numerator + denominator) \div (2 * denominator)

\* the trader's calculate_win_rate_statistics: abs(avg_profit) / abs(avg_loss) of the
\* SQL averages when there is a loss, else 1.0; with a loss and no winning trade
\* avg_profit is NULL, abs(None) raises and the except branch returns 1.0
profit_factor(pnl_history) ==
    IF losing(pnl_history) # << >> /\ winning(pnl_history) # << >>
    THEN round_ratio(sum(winning(pnl_history)) * Len(losing(pnl_history)),
                     - sum(losing(pnl_history)) * Len(winning(pnl_history)))
    ELSE 100

\* the monitor's calculate_win_rate_statistics_from_orders:
\* total_profit / total_loss if total_loss > 0 else 0.0
profit_factor_from_orders(pnl_history) ==
    IF losing(pnl_history) # << >>
    THEN round_ratio(sum(winning(pnl_history)), - sum(losing(pnl_history)))
    ELSE 0

\* a trade is closed with its pnl
close_trade ==
    /\ Len(statistics.pnl_history) < MaxTrades
    /\ \E pnl \in Pnls :
          statistics' = [statistics EXCEPT !.pnl_history = Append(@, pnl)]
    /\ UNCHANGED <<lifecycleVars, request, cacheVars, altcoin, file_manager>>
    /\ UNCHANGED <<traderVars, monitorVars>>

\* both statistics are computed over the closed trades
calculate_statistics ==
    /\ statistics' = [statistics EXCEPT
          !.profit_factor = profit_factor(statistics.pnl_history),
          !.profit_factor_from_orders =
              profit_factor_from_orders(statistics.pnl_history)]
    /\ UNCHANGED <<lifecycleVars, request, cacheVars, altcoin, file_manager>>
    /\ UNCHANGED <<traderVars, monitorVars>>

StatisticsNext ==
    \/ close_trade
    \/ calculate_statistics

-----------------------------------------------------------------------------
(* AsyncFileManager: a queue of writes and the task that performs them *)

\* the writes the model queues
MaxWrites == 3
WriteData == {1, 2}

\* what is left of this module's variables by a step of the file manager
file_manager_only ==
    /\ UNCHANGED <<lifecycleVars, request, cacheVars, altcoin, statistics>>
    /\ UNCHANGED <<traderVars, monitorVars>>

\* start: nothing if _running is set, else the flag is set and the task is created
\* (the model follows the first start of a manager)
start ==
    /\ file_manager.worker = "none"
    /\ ~file_manager.running
    /\ file_manager' = [file_manager EXCEPT !.running = TRUE, !.worker = "test"]
    /\ file_manager_only

\* queue_write_json and queue_append_json: _write_queue.put, which counts the item
\* as an unfinished task
queue_write_json ==
    /\ file_manager.puts < MaxWrites
    /\ \E data \in WriteData :
          file_manager' = [file_manager EXCEPT
              !.queue = Append(@, data), !.unfinished_tasks = @ + 1, !.puts = @ + 1]
    /\ file_manager_only

\* stop up to its await: the flag is cleared, then it waits in _write_queue.join()
stop ==
    /\ file_manager.stop = "none"
    /\ file_manager.worker # "none"
    /\ file_manager' = [file_manager EXCEPT !.running = FALSE, !.stop = "joining"]
    /\ file_manager_only

\* _write_queue.join() returns when no task is unfinished
join_returns ==
    /\ file_manager.stop = "joining"
    /\ file_manager.unfinished_tasks = 0
    /\ file_manager' = [file_manager EXCEPT !.stop = "returned"]
    /\ file_manager_only

\* _process_write_queue's `while self._running`
process_write_queue_tests ==
    /\ file_manager.worker = "test"
    /\ file_manager' = [file_manager EXCEPT
          !.worker = IF file_manager.running THEN "get" ELSE "exited"]
    /\ file_manager_only

\* wait_for(_write_queue.get(), timeout=1.0): the first item of the queue, or
\* TimeoutError and `continue` when the queue stays empty
process_write_queue_gets ==
    /\ file_manager.worker = "get"
    /\ file_manager' =
          IF file_manager.queue # << >>
          THEN [file_manager EXCEPT !.write_task = Head(file_manager.queue),
                                    !.queue = Tail(@), !.worker = "write"]
          ELSE [file_manager EXCEPT !.worker = "test"]
    /\ file_manager_only

\* the write is performed, or it raises; task_done either way
process_write_queue_writes ==
    /\ file_manager.worker = "write"
    /\ \E raised \in BOOLEAN :
          file_manager' = [file_manager EXCEPT
              !.written = IF raised THEN @ ELSE Append(@, file_manager.write_task),
              !.write_task = None,
              !.unfinished_tasks = @ - 1,
              !.worker = "test"]
    /\ file_manager_only

\* the steps of the _process_write_queue task
process_write_queue ==
    \/ process_write_queue_tests
    \/ process_write_queue_gets
    \/ process_write_queue_writes

FileManagerNext ==
    \/ start
    \/ queue_write_json
    \/ stop
    \/ join_returns
    \/ process_write_queue

ServiceInit ==
    /\ monitoring_active = FALSE
    /\ keep_running = FALSE
    /\ loops = << >>
    /\ request = [ status |-> "idle", method |-> "futures_symbol_ticker",
                   attempt |-> 0, errors |-> << >>, slept |-> << >> ]
    /\ price_cache = [symbol \in MonitorSymbols |-> None]
    /\ price_cache_time = [symbol \in MonitorSymbols |-> None]
    /\ cached_price = [cache_key |-> None, price |-> None, fetched_at |-> None]
    /\ served = [by |-> "none", price |-> None, age |-> None]
    /\ altcoin = [ current_prices |-> [i \in 1..AltcoinOrders |-> None],
                   index |-> 0, retry_count |-> 0, current_price |-> None,
                   iterations |-> 0 ]
    /\ statistics = [ pnl_history |-> << >>, profit_factor |-> None,
                      profit_factor_from_orders |-> None ]
    /\ file_manager = [ running |-> FALSE, queue |-> << >>, unfinished_tasks |-> 0,
                        puts |-> 0, write_task |-> None, written |-> << >>,
                        worker |-> "none", stop |-> "none" ]

-----------------------------------------------------------------------------
(* Specifications *)

Init == TraderInit /\ MonitorInit /\ ServiceInit

\* the trader's loop
SpecTrader == Init /\ [][TraderNext]_vars

\* calls of the position sizer
SpecSizer == Init /\ [][calculate_position_size]_vars

\* the order monitor's loop and its operator
SpecMonitor == Init /\ [][MonitorNext]_vars

\* the order monitor's loop tracking two orders
SpecPair == Init /\ [][PairNext]_vars

\* the order monitor's loop, the operator adding, editing, deleting and clearing
SpecOperator == Init /\ [][OperatorNext]_vars

\* the start and stop requests and the background_monitoring tasks
SpecLifecycle == Init /\ [][LifecycleNext]_vars

\* the same, every task that can take a step taking one in the end
SpecLifecycleFair == Init /\ [][LifecycleNext]_vars /\ WF_vars(LoopStep)

\* calls of _request, every call that can make an attempt making it in the end
SpecRequest == Init /\ [][RequestNext]_vars /\ WF_vars(request_attempt)

\* lookups through the two price caches
SpecCache == Init /\ [][CacheNext]_vars

\* the order monitor's loop and the operator's handlers running in their threads
SpecInterleaved == Init /\ [][InterleavedNext]_vars

\* the altcoin price update of the monitor's loop
SpecAltcoin == Init /\ [][AltcoinNext]_vars

\* the statistics of the closed trades
SpecStatistics == Init /\ [][StatisticsNext]_vars

\* the file manager; the event loop runs every task that can run
SpecFileManager ==
    Init /\ [][FileManagerNext]_vars
         /\ WF_vars(process_write_queue) /\ WF_vars(join_returns)

-----------------------------------------------------------------------------
(* Properties of the trader *)

Malformed(signal) == signal.entry_price = None \/ signal.stop_loss = None

\* Long: stop_loss < entry_price < target_price (when present); Short: inverted
PriceOrdering(signal) ==
    IF signal.side = "BUY"
    THEN /\ signal.stop_loss < signal.entry_price
         /\ signal.target_price = None \/ signal.entry_price < signal.target_price
    ELSE /\ signal.stop_loss > signal.entry_price
         /\ signal.target_price = None \/ signal.target_price < signal.entry_price

C2_LongRejectedInCooldown ==
    \A i \in DOMAIN placed :
        (placed[i].signal.side = "BUY" /\ now - placed[i].time < CooldownSeconds)
            => is_signal_executed(placed[i].signal, now)

\* a Long signal was marked in minute 0 and the clock shows the last minute of its window
C2_Witness ==
    /\ Len(placed) >= 1
    /\ placed[1].signal.side = "BUY"
    /\ placed[1].time = 0
    /\ now = CooldownSeconds - BucketSeconds

\* C3: a signal is rejected at every time within the cooldown of an executed signal
\* with the same fields, and is rejected only when a record with its own base key
\* is within its cooldown.
C3_RejectedIffSameBaseKey ==
    /\ \A i \in DOMAIN placed :
          now - placed[i].time < CooldownSeconds
              => is_signal_executed(placed[i].signal, now)
    /\ \A signal \in Signals :
          is_signal_executed(signal, now)
              => \E key \in DOMAIN executed_signals :
                    /\ base_key(key) = base_key(get_signal_key(signal, now))
                    /\ now - executed_signals[key] < CooldownSeconds

\* C4: every record of the ledger was written for an entry order the venue accepted,
\* with the time of that placement: a pass that fails leaves the ledger as it was.
C4_LedgerOnlyAfterPlacement ==
    \A key \in DOMAIN executed_signals :
        \E i \in DOMAIN placed :
            /\ key = get_signal_key(placed[i].signal, placed[i].time)
            /\ executed_signals[key] = placed[i].time

\* place_order failed for a signal that passed every check, and the ledger is empty
C4_Witness ==
    /\ last_result = "order_failed"
    /\ DOMAIN executed_signals = {}

\* C5: no two open entry orders of one side have prices within 0.1% of each other.
C5_NoTwoOpenOrdersAtOneLevel ==
    \A o1, o2 \in open_orders :
        (o1.id # o2.id /\ o1.side = o2.side)
            => ~within_tolerance(o1.price, o2.price)

C7_MalformedRejected ==
    /\ \A signal \in Signals :
          Malformed(signal) => trade_results(signal, now) = {"skip_malformed"}
    /\ \A i \in DOMAIN placed : ~Malformed(placed[i].signal)
    /\ \A key \in DOMAIN executed_signals :
          key[5] # price_text(None) /\ key[7] # price_text(None)

\* a malformed row was read and dropped while the ledger holds a record
C7_Witness ==
    /\ last_result = "skip_malformed"
    /\ DOMAIN executed_signals # {}

\* the risk percentage of the statement, in basis points times AdjustmentScale
StatedRisk(s) ==
    LET win == IF s.recent_win_rate > 60 THEN 12
               ELSE IF s.recent_win_rate < 40 THEN 7 ELSE 10
        profit == IF s.profit_factor > 150 THEN 11
                  ELSE IF s.profit_factor < 80 THEN 8 ELSE 10
        losses == IF s.max_consecutive_losses > 5 THEN 6
                  ELSE IF s.max_consecutive_losses > 3 THEN 8 ELSE 10
        quality == 50 + s.signal_quality \div 2
    IN  s.risk_percentage * win * profit * losses * quality

\* C20: the percentage calculate_position_size computes is the base risk times the
\* win-rate, profit-factor, consecutive-loss and signal-quality factors with their
\* strict thresholds, clamped into [0.1%, 5%]; 0.65, 1.8, 1, 1.0 and 2% give 2.64%.
C20_RiskPercentageFormula ==
    sizing.final_position_percentage # None =>
      /\ sizing.final_position_percentage >= 10 * AdjustmentScale
      /\ sizing.final_position_percentage <= 500 * AdjustmentScale
      /\ StatedRisk(sizing) < 10 * AdjustmentScale
            => sizing.final_position_percentage = 10 * AdjustmentScale
      /\ StatedRisk(sizing) > 500 * AdjustmentScale
            => sizing.final_position_percentage = 500 * AdjustmentScale
      /\ (StatedRisk(sizing) >= 10 * AdjustmentScale
            /\ StatedRisk(sizing) <= 500 * AdjustmentScale)
            => sizing.final_position_percentage = StatedRisk(sizing)
      /\ (sizing.recent_win_rate = 65 /\ sizing.profit_factor = 180
            /\ sizing.max_consecutive_losses = 1 /\ sizing.signal_quality = 100
            /\ sizing.risk_percentage = 200)
            => sizing.final_position_percentage = 264 * AdjustmentScale

\* the sizer was called with the statistics of the example
C20_Witness ==
    /\ sizing.recent_win_rate = 65
    /\ sizing.profit_factor = 180
    /\ sizing.max_consecutive_losses = 1
    /\ sizing.signal_quality = 100
    /\ sizing.risk_percentage = 200
    /\ sizing.final_position_percentage # None

\* C21: with a positive balance and an available price, the quantity returned is
\* (balance * risk percentage * leverage) / price at the quantity precision, which
\* is not zero when that value is above zero.
C21_QuantityFormula ==
    (/\ sizing.calls > 0
     /\ sizing.account_balance # None
     /\ sizing.account_balance > 0
     /\ sizing.current_price # None) =>
        sizing.quantity = sized_quantity(sizing.account_balance,
                                         sizing.final_position_percentage,
                                         TradingLeverage, sizing.current_price)

\* C22: calculate_position_size returns 0 whenever the account is unavailable, the
\* balance is not positive or the price is unavailable, whatever the other inputs.
C22_ZeroWithoutBalanceOrPrice ==
    (/\ sizing.calls > 0
     /\ \/ sizing.account_balance = None
        \/ sizing.account_balance <= 0
        \/ sizing.current_price = None) => sizing.quantity = 0

\* the sizer was called with a balance of 1000 and no price
C22_Witness ==
    /\ sizing.calls > 0
    /\ sizing.account_balance = 1000
    /\ sizing.current_price = None
    /\ sizing.quantity = 0

\* base * 1.0 * 1.0 * 1.0 * factor, clamped into [0.1%, 5%]
ClampedRisk(risk_percentage, factor) ==
    LET risk == risk_percentage * 10 * 10 * 10 * factor IN
    IF risk > 500 * AdjustmentScale THEN 500 * AdjustmentScale
    ELSE IF risk < 10 * AdjustmentScale THEN 10 * AdjustmentScale ELSE risk

\* C23 as stated: without closed trades the percentage is the base risk percentage,
\* every adjustment factor being 1.0.
C23_AsStated ==
    (/\ sizing.trade_history # "trades"
     /\ sizing.final_position_percentage # None) =>
        sizing.final_position_percentage = sizing.risk_percentage * AdjustmentScale

\* C23 amended: without closed trades the sizer computes a percentage with the
\* win-rate, profit-factor and consecutive-loss factors at 1.0: the base risk
\* percentage times the signal quality factor 0.5 + 0.5 * quality, clamped into
\* [0.1%, 5%].
C23_BaseTimesQuality ==
    (/\ sizing.calls > 0
     /\ sizing.trade_history # "trades"
     /\ sizing.account_balance # None) =>
        /\ sizing.final_position_percentage # None
        /\ sizing.final_position_percentage =
              ClampedRisk(sizing.risk_percentage, 50 + sizing.signal_quality \div 2)

\* the sizer was called without closed trades, at quality 0.5 and base 2%: 1.5%
C23_Witness ==
    /\ sizing.trade_history = "no_trades"
    /\ sizing.signal_quality = 50
    /\ sizing.risk_percentage = 200
    /\ sizing.final_position_percentage = 150 * AdjustmentScale

-----------------------------------------------------------------------------
(* Properties of the order monitor *)

TrackedOrders ==
    { active_orders[i] : i \in DOMAIN active_orders }
        \cup { completed_orders[i] : i \in DOMAIN completed_orders }

IsLong(order) == order.direction \in long_labels
IsShort(order) == order.direction \in short_labels

\* a long or short order with a target and a stop on the two sides of a gap
Thresholded(order) ==
    /\ order.target_price # None
    /\ order.stop_loss # None
    /\ \/ IsLong(order) /\ order.stop_loss < order.target_price
       \/ IsShort(order) /\ order.target_price < order.stop_loss

LongExample(order) ==
    /\ IsLong(order)
    /\ order.entry_price = 100
    /\ order.stop_loss = 90
    /\ order.target_price = 120

\* the short order of the example: entry 100, stop 110, target 80
ShortExample(order) ==
    /\ IsShort(order)
    /\ order.entry_price = 100
    /\ order.stop_loss = 110
    /\ order.target_price = 80

\* a row of the price history that check_entry_triggered counts as the entry of a
\* long order
EntryRowFor(order) ==
    \E i \in DOMAIN price_history :
        /\ price_history[i].symbol = order.symbol
        /\ price_history[i].timestamp >= order.publish_time
        /\ price_history[i].low_price <= order.entry_price

\* C9 as stated: the long order 100/90/120 is Entered after the reading 105 and,
\* after the readings 105 and 95, Completed as stop loss with exit price 95 and a
\* realized profit of -5.00%.
C9_AsStated ==
    \A order \in TrackedOrders :
        LongExample(order) =>
          /\ order.seen = <<105>> => order.has_entered
          /\ order.seen = <<105, 95>> =>
                /\ order.status = "completed"
                /\ order.result = "zhisun"
                /\ order.exit_price = 95
                /\ order.profit_pct = -500

\* C9 amended: the long order 100/90/120 stays active through the readings 105 and
\* 95: while its price is 95 it has no exit price and no result and its running
\* profit is -5.00%; it is marked as entered only if the price history holds a row,
\* not older than the order, with a low at or under 100.
C9_StaysActiveAbove90 ==
    \A order \in TrackedOrders :
        LongExample(order) =>
          /\ (order.seen = <<105>> /\ order.current_price = 105) =>
                /\ order.status = "active"
                /\ order.profit_pct = 500
          /\ (order.seen = <<105, 95>> /\ order.current_price = 95) =>
                /\ order.status = "active"
                /\ ~order.is_completed
                /\ \E i \in DOMAIN active_orders : active_orders[i] = order
                /\ order.exit_price = None
                /\ order.result = "-"
                /\ order.profit_pct = -500
          /\ order.has_entered => EntryRowFor(order)

\* the long order has been priced at 105 and then at 95
C9_Witness ==
    \E i \in DOMAIN active_orders :
        /\ LongExample(active_orders[i])
        /\ active_orders[i].seen = <<105, 95>>
        /\ active_orders[i].current_price = 95

\* C10: the short order 100/110/80 is, after the readings 95 and 112, Completed as
\* stop loss with exit price 112 and a realized profit of -12.00%, having been
\* marked as entered on the way.
C10_AsStated ==
    \A order \in TrackedOrders :
        (ShortExample(order) /\ order.seen = <<95, 112>>) =>
          /\ order.status = "completed"
          /\ order.result = "zhisun"
          /\ order.exit_price = 112
          /\ order.profit_pct = -1200
          /\ order.has_entered

\* the exit price of a completed order is at or beyond its target and its stop at once
DoubleCross(order) ==
    /\ order.target_price # None
    /\ order.stop_loss # None
    /\ \/ /\ IsLong(order)
          /\ order.exit_price >= order.target_price
          /\ order.exit_price <= order.stop_loss
       \/ /\ IsShort(order)
          /\ order.exit_price <= order.target_price
          /\ order.exit_price >= order.stop_loss

\* C11: an order completed by a price that crosses both its stop and its target in
\* one tick, in either pass and on either side, has the exit reason stop loss.
C11_StopLossOnDoubleCross ==
    \A i \in DOMAIN completed_orders :
        DoubleCross(completed_orders[i]) => completed_orders[i].result = "zhisun"

TrackedIds ==
    { active_orders[i].id : i \in DOMAIN active_orders }
        \cup { completed_orders[i].id : i \in DOMAIN completed_orders }

\* C12: Completed is terminal: in every step of the loop each completed order keeps
\* its place in completed_orders with every field as it was (exit price, exit reason
\* and exit time among them), no order of the active list is completed, and no
\* completed order is in the active list again.
C12_CompletedIsTerminal ==
    [][ /\ \A i \in DOMAIN completed_orders :
              /\ i \in DOMAIN completed_orders'
              /\ completed_orders'[i] = completed_orders[i]
              /\ completed_orders[i].status = "completed"
              /\ \A j \in DOMAIN active_orders' :
                    active_orders'[j].id # completed_orders[i].id
        /\ \A j \in DOMAIN active_orders' :
              /\ active_orders'[j].status = "active"
              /\ ~active_orders'[j].is_completed ]_vars

\* an order completed in the first loop pass, and both passes of the second are over
C12_Witness ==
    /\ phase = "monitor_csv_file"
    /\ \E i \in DOMAIN completed_orders :
          /\ completed_orders[i].exit_time # None
          /\ completed_orders[i].exit_time < exit_now

\* C13: no order is completed as take profit or stop loss unless it was marked as
\* entered at an earlier tick or at the tick that completes it.
C13_CompletedOnlyAfterEntered ==
    \A i \in DOMAIN completed_orders :
        completed_orders[i].result \in {"zhiying", "zhisun"}
            => completed_orders[i].has_entered

\* C14: an order that is not completed has no exit price, no exit reason, no exit
\* time and no hold time in minutes; a completed order has all of them and its
\* realized profit, whichever pass completed it.
C14_ExitFieldsAllOrNone ==
    \A order \in TrackedOrders :
        IF order.status = "completed"
        THEN /\ order.exit_price # None
             /\ order.result # "-"
             /\ order.exit_time # None
             /\ order.hold_time_minutes # None
             /\ order.profit_pct # None
        ELSE /\ order.exit_price = None
             /\ order.result = "-"
             /\ order.exit_time = None
             /\ order.hold_time_minutes = None

ActiveIds == { active_orders[i].id : i \in DOMAIN active_orders }

CompletedIds == { completed_orders[i].id : i \in DOMAIN completed_orders }

\* C15: orders are never deleted: in every step each tracked order is still tracked
\* after it, in exactly one of the two lists, and a completed order stays completed.
C15_NoOrderDisappears ==
    [][ /\ TrackedIds \subseteq TrackedIds'
        /\ CompletedIds \subseteq CompletedIds'
        /\ ActiveIds' \cap CompletedIds' = {} ]_vars

\* an order without the ghost field of its first readings
without_seen(order) == [order EXCEPT !.seen = << >>]

PriceFieldsUntouched(order) ==
    /\ order.status = "active"
    /\ ~order.is_completed
    /\ order.current_price = None
    /\ order.profit_pct = None
    /\ order.exit_price = None
    /\ order.exit_time = None
    /\ order.result = "-"

\* a sequence without its i-th element
without_index(seq, i) == SubSeq(seq, 1, i - 1) \o SubSeq(seq, i + 1, Len(seq))

\* a pass that reads `lookup` leaves the orders whose price is unavailable as they
\* are and treats the other orders as if those were absent
SkipsOnlyTheUnavailable(lookup) ==
    \A i \in DOMAIN active_orders :
        lookup[active_orders[i].symbol] = None =>
          /\ price_pass(active_orders, lookup)[i] = active_orders[i]
          /\ status_pass(active_orders, lookup)[i] = active_orders[i]
          /\ price_pass(without_index(active_orders, i), lookup)
                = without_index(price_pass(active_orders, lookup), i)
          /\ status_pass(without_index(active_orders, i), lookup)
                = without_index(status_pass(active_orders, lookup), i)

\* C17 as stated: an order whose price was unavailable in every pass so far has had
\* no state change (it is not marked as entered either), and the other orders are
\* processed as if it were absent.
C17_AsStated ==
    /\ \A order \in TrackedOrders :
          (order.symbol \in realtime_symbols /\ order.seen = << >>)
              => PriceFieldsUntouched(order) /\ ~order.has_entered
    /\ \A lookup \in PairLookups : SkipsOnlyTheUnavailable(lookup)

\* C17 amended: an order whose price was unavailable in every pass so far keeps its
\* status, price, profit and exit fields and no pass fails on it; it is marked as
\* entered when the price history holds a row that reaches its entry price; every
\* other order is processed as if the order were absent.
C17_SkippedKeepsPriceFields ==
    /\ \A order \in TrackedOrders :
          order.seen = << >> =>
            /\ PriceFieldsUntouched(order)
            /\ order.has_entered => check_entry_triggered(order, price_history)
    /\ \A lookup \in PairLookups : SkipsOnlyTheUnavailable(lookup)

\* the price of BTCUSDT was unavailable in every pass while the order of DOGEUSDT
\* was priced, and the BTCUSDT order is marked as entered
C17_Witness ==
    \E i, j \in DOMAIN active_orders :
        /\ active_orders[i].symbol = "BTCUSDT"
        /\ active_orders[i].seen = << >>
        /\ active_orders[i].has_entered
        /\ active_orders[j].symbol = "DOGEUSDT"
        /\ active_orders[j].current_price = 95
        /\ active_orders[j].publish_time <= active_orders[i].publish_time

\* C18: a long order without a target price whose price is at or under its stop
\* loss is completed as stop loss, and no order without a target price is completed
\* as take profit.
C18_NoTargetStopsOut ==
    \A order \in TrackedOrders :
        (order.target_price = None /\ order.stop_loss # None) =>
          /\ order.result # "zhiying"
          /\ (IsLong(order) /\ order.current_price # None
                /\ order.current_price <= order.stop_loss)
                => (order.status = "completed" /\ order.result = "zhisun")

\* C19: the profit of an order completed as take profit or stop loss is
\* (exit - entry) / entry * 100 for the long labels and (entry - exit) / entry * 100
\* for the short labels.
C19_RealizedPnlFormula ==
    \A i \in DOMAIN completed_orders :
        LET order == completed_orders[i] IN
        order.result \in {"zhiying", "zhisun"} =>
          /\ IsLong(order) => order.profit_pct =
                percent(order.exit_price - order.entry_price, order.entry_price)
          /\ IsShort(order) => order.profit_pct =
                percent(order.entry_price - order.exit_price, order.entry_price)

-----------------------------------------------------------------------------
(* Properties of the publisher *)

\* the passes of the loop that move orders to completed_orders
AdvancePasses == {"update_order_prices", "update_all_orders_status"}

\* C24: the push step of the loop emits orders_update only if the fingerprint differs
\* from the stored one and at least min_push_interval seconds have passed since
\* last_push_time; within the interval it emits nothing and changes nothing, whether
\* the fingerprint differs or not.
C24_PushOnlyWhenChangedAndDue ==
    [][ phase = "should_push_data" /\ phase' = "collect_prices" =>
          LET current_hash == data_hash(active_orders, completed_orders)
              pushed == "should_push_data" \in emitted'
          IN  /\ pushed => /\ current_time - last_push_time >= min_push_interval
                           /\ current_hash # last_data_hash
                           /\ last_data_hash' = current_hash
                           /\ last_push_time' = current_time
              /\ current_time - last_push_time < min_push_interval =>
                    ~pushed /\ UNCHANGED publisherVars
              /\ current_hash = last_data_hash =>
                    ~pushed /\ UNCHANGED publisherVars ]_vars

\* a push step has run less than min_push_interval seconds after the last push, with
\* an active order and a fingerprint other than the stored one, and emitted nothing
C24_Witness ==
    /\ phase = "collect_prices"
    /\ tick > 0
    /\ emitted # {}
    /\ "should_push_data" \notin emitted
    /\ current_time - last_push_time < min_push_interval
    /\ Len(active_orders) > 0
    /\ data_hash(active_orders, completed_orders) # last_data_hash

\* C25: a pass of the loop that moves an order to completed_orders emits orders_update
\* in that pass, however recent the last push is, and sets the push time; a pass
\* that moves no order emits nothing and leaves the publisher as it is.
C25_ForcedPushOnCompletion ==
    [][ phase' # phase /\ phase \in AdvancePasses =>
          LET moved == Len(completed_orders') - Len(completed_orders)
          IN  /\ moved > 0 => /\ phase \in emitted'
                              /\ last_push_time' = current_time
              /\ moved = 0 => UNCHANGED publisherVars ]_vars

\* both passes of one loop pass have completed an order and emitted, the second less
\* than min_push_interval seconds after the first
C25_Witness ==
    /\ emitted = AdvancePasses
    /\ last_push_time = current_time
    /\ Len(completed_orders) = 2

-----------------------------------------------------------------------------
(* Properties of the threads *)

\* C26: while update_order_prices is between its loop over the active orders and the
\* end of its move of the completed ones, no other thread writes the order lists.
C26_PassExcludesHandlers ==
    [][ phase = "update_order_prices_move" /\ phase' = phase =>
          UNCHANGED <<active_orders, completed_orders>> ]_vars

\* what a move that runs without interference keeps true: every order in
\* completed_orders is marked completed
OnlyCompletedOrdersMoved ==
    \A i \in DOMAIN completed_orders :
        completed_orders[i].is_completed /\ completed_orders[i].status = "completed"

\* the background_monitoring tasks that are in the body of their loop
InPass == {l \in DOMAIN loops : loops[l] = "pass"}

\* the background_monitoring tasks that have ended
Ended == {l \in DOMAIN loops : loops[l] \in {"stopped", "failed"}}

\* C27: at most one background_monitoring task is in the body of its loop at any
\* time, whatever the order of the start and stop requests.
C27_AtMostOneLoopInPass == Cardinality(InPass) <= 1

-----------------------------------------------------------------------------
(* Properties of the retried request *)

\* seq is an initial part of other
IsPrefix(seq, other) ==
    /\ Len(seq) <= Len(other)
    /\ \A i \in DOMAIN seq : seq[i] = other[i]

-----------------------------------------------------------------------------
(* Properties of the price caches *)

\* the time an entry of the cache that served the last lookup lives
ServedTtl == IF served.by = "get_cached_price" THEN PRICE_CACHE_DURATION
             ELSE CacheKeySeconds

\* C30: a price a cache serves is younger than the cache's time to live and not older
\* than one sleep of the monitoring loop (20 s).
C30_ServedPriceIsFresh ==
    served.price # None =>
        /\ served.age < ServedTtl
        /\ served.age <= SleepSeconds

\* a price a cache serves is younger than the cache's time to live, and a cache never
\* holds a price that no fetch gave
ServedWithinTtl ==
    /\ served.price # None => served.age < ServedTtl /\ served.price > 0
    /\ \A symbol \in MonitorSymbols : price_cache[symbol] \in FetchedPrices

-----------------------------------------------------------------------------
(* Properties of the persistence *)

-----------------------------------------------------------------------------
(* Properties of the ledger's clean-up *)

\* the order pairs that match a stored key: symbol, side and entry price within 0.1%
MatchingPairs(signal_key) ==
    { pair \in order_pairs :
        /\ pair.symbol = signal_key[1]
        /\ pair.side = signal_key[3]
        /\ pair.entry_price # None
        /\ within_tolerance(pair.entry_price, key_entry_price(signal_key)) }

\* C32: the keys clean_expired_signals deletes are the keys that are at least a
\* cooldown window old and have no matching order pair that is still open.
C32_PrunesExactlyTheExpired ==
    expired_keys(now) =
        { signal_key \in DOMAIN executed_signals :
            /\ now - executed_signals[signal_key] >= CooldownSeconds
            /\ \A pair \in MatchingPairs(signal_key) :
                  pair.status \in {"closed_by_stop_loss", "closed_by_take_profit"} }

-----------------------------------------------------------------------------
(* Properties of the altcoin price update *)

\* C33: the retry loop of update_altcoin_prices makes at most 3 attempts for an
\* order, whatever the price source answers.
C33_RetryLoopBounded == altcoin.iterations <= altcoin_max_retries

-----------------------------------------------------------------------------
(* Properties of the statistics *)

\* the statistics on record are those of the trades on record
StatisticsCurrent ==
    /\ statistics.profit_factor = profit_factor(statistics.pnl_history)
    /\ statistics.profit_factor_from_orders =
          profit_factor_from_orders(statistics.pnl_history)

\* C34: with at least one losing trade, the trader's profit factor is the sum of
\* the winning pnl divided by the sum of the absolute losing pnl.
C34_ProfitFactorIsRatioOfTotals ==
    (StatisticsCurrent /\ losing(statistics.pnl_history) # << >>)
        => statistics.profit_factor =
             round_ratio(sum(winning(statistics.pnl_history)),
                         - sum(losing(statistics.pnl_history)))

\* the monitor's profit factor is that ratio
FromOrdersIsRatioOfTotals ==
    (StatisticsCurrent /\ losing(statistics.pnl_history) # << >>)
        => statistics.profit_factor_from_orders =
             round_ratio(sum(winning(statistics.pnl_history)),
                         - sum(losing(statistics.pnl_history)))

-----------------------------------------------------------------------------
(* Properties of the snapshots the observers receive *)

\* C35: the periodic push that follows a forced push emits nothing unless the
\* orders have changed since the forced push.
C35_NoRepeatedSnapshot ==
    [][ (/\ phase' # phase
         /\ phase = "should_push_data"
         /\ forced_snapshot # << >>
         /\ "should_push_data" \in emitted')
            => forced_snapshot # <<active_orders, completed_orders>> ]_vars

-----------------------------------------------------------------------------
(* Properties of the completed orders under interleaving *)

\* C36: whatever the handlers do between the steps of a loop pass, every order in
\* completed_orders has the status completed and the result of its exit.
C36_CompletedSetHoldsCompletedOrders ==
    \A i \in DOMAIN completed_orders :
        /\ completed_orders[i].status = "completed"
        /\ completed_orders[i].result \in {"zhiying", "zhisun"}

-----------------------------------------------------------------------------
(* Properties of a restart *)

\* C37: while a task that was stopped is still in the body of its loop, a start
\* that answers 'started' leaves both flags of the loop set, so that the task it
\* starts runs its loop until the next stop.
C37_StartedLoopRuns ==
    [][ (/\ Len(loops') > Len(loops)
         /\ \E l \in DOMAIN loops : loops[l] \in {"pass", "sleep"})
            => keep_running' /\ monitoring_active' ]_vars

-----------------------------------------------------------------------------
(* Properties of the sign of the realised profit *)

\* the price ordering of the order's side: stop below entry below target for a long
\* order, target below entry below stop for a short one
PriceOrdered(order) ==
    /\ order.target_price # None
    /\ IsLong(order) => order.stop_loss < order.entry_price
                        /\ order.entry_price < order.target_price
    /\ IsShort(order) => order.target_price < order.entry_price
                         /\ order.entry_price < order.stop_loss

\* C38: a completed order whose prices are ordered for its side has a positive
\* profit_pct when it took profit and a negative one when it was stopped out.
C38_ProfitSignMatchesExit ==
    \A i \in DOMAIN completed_orders :
        LET order == completed_orders[i] IN
        PriceOrdered(order) =>
          /\ order.result = "zhiying" => order.profit_pct > 0
          /\ order.result = "zhisun" => order.profit_pct < 0

-----------------------------------------------------------------------------
(* Properties of the size of an entry order *)

\* C39: the notional of every entry order that was placed is at most 300 USDT times
\* the leverage, whatever the sign of the channel's position ratio.
C39_NotionalBounded ==
    \A i \in DOMAIN placed : placed[i].notional <= MaxBasePosition * BtcLeverage

-----------------------------------------------------------------------------
(* Properties of the file manager *)

\* C40: once stop is called, the queue is emptied by the task and stop returns.
C40_StopDrainsAndReturns ==
    (file_manager.stop = "joining") ~>
        (file_manager.stop = "returned" /\ file_manager.queue = << >>)

====
